---- MODULE Spec2Model ----
(***************************************************************************)
(* Model of the fluoridation dashboard (app.py): the retrying feedback     *)
(* client AIFeedbackGenerator.generate_feedback, the prompt it builds from *)
(* the state_guidelines directory, and the Dash callback update_charts     *)
(* that calls it.                                                          *)
(*                                                                         *)
(* Conventions.  A Python string that the program only passes around is a  *)
(* TLA+ string.  A string the program takes apart (the completion, which   *)
(* is .strip()ped) is a sequence of one-character strings.  A string the   *)
(* program assembles (the prompt, the messages) is the sequence of its     *)
(* segments, in order.  A fluoride value is an integer number of           *)
(* thousandths of a mg/L (710 is 0.71).  A year is carried as its decimal  *)
(* rendering ("2021"): the program only compares and prints it.            *)
(***************************************************************************)
EXTENDS Integers, Sequences, FiniteSets, TLC

VARIABLES
    ai_feedback_generator,  \* the client object: api_key, endpoint, timeout, retries
    fluoride_data,          \* the prepared dataframe, a sequence of rows
    selected_year,          \* per session: the year argument of the running/last callback
    selected_state,         \* per session: the state argument of the running/last callback
    feedback,               \* per session: children of the 'ai-feedback' output
    table_data,             \* per session: data of the 'data-table' output
    pc,                     \* per call: where generate_feedback stands
    caller,                 \* per call: who invoked generate_feedback
    request,                \* per call: the arguments of generate_feedback
    prompt,                 \* per call: the prompt sent as the user message
    attempt,                \* per call: the loop variable of `for attempt in range(...)`
    posts,                  \* per call: the responses to the POSTs it issued, in order
    log,                    \* per call: the logging.error records it emitted, in order
    result,                 \* per call: the value returned by generate_feedback
    exc                     \* per call: the exception that left generate_feedback

vars == <<ai_feedback_generator, fluoride_data, selected_year,
          selected_state, feedback, table_data, pc, caller, request, prompt, attempt,
          posts, log, result, exc>>

-----------------------------------------------------------------------------
(* Bounds and program constants *)

MaxRetries == 2

retry_attempts == 3

timeout == 30

\* Python's None, for values that are otherwise strings
None == "<None>"

\* the threads that may be inside generate_feedback at once
Calls == {"session_a", "session_b"}

\* the dashboard session whose dropdowns are exercised
Sessions == {"session_a"}

RetriesRange == (0 - 1) .. MaxRetries

-----------------------------------------------------------------------------
(* Static tables *)

state_abbreviations ==
    [abbr \in {"AL", "AK", "AZ", "AR", "CA", "CO", "CT", "DE", "FL", "GA",
               "HI", "ID", "IL", "IN", "IA", "KS", "KY", "LA", "ME", "MD",
               "MA", "MI", "MN", "MS", "MO", "MT", "NE", "NV", "NH", "NJ",
               "NM", "NY", "NC", "ND", "OH", "OK", "OR", "PA", "RI", "SC",
               "SD", "TN", "TX", "UT", "VT", "VA", "WA", "WV", "WI", "WY",
               "DC"} |->
        CASE abbr = "AL" -> "Alabama"        [] abbr = "AK" -> "Alaska"
          [] abbr = "AZ" -> "Arizona"        [] abbr = "AR" -> "Arkansas"
          [] abbr = "CA" -> "California"     [] abbr = "CO" -> "Colorado"
          [] abbr = "CT" -> "Connecticut"    [] abbr = "DE" -> "Delaware"
          [] abbr = "FL" -> "Florida"        [] abbr = "GA" -> "Georgia"
          [] abbr = "HI" -> "Hawaii"         [] abbr = "ID" -> "Idaho"
          [] abbr = "IL" -> "Illinois"       [] abbr = "IN" -> "Indiana"
          [] abbr = "IA" -> "Iowa"           [] abbr = "KS" -> "Kansas"
          [] abbr = "KY" -> "Kentucky"       [] abbr = "LA" -> "Louisiana"
          [] abbr = "ME" -> "Maine"          [] abbr = "MD" -> "Maryland"
          [] abbr = "MA" -> "Massachusetts"  [] abbr = "MI" -> "Michigan"
          [] abbr = "MN" -> "Minnesota"      [] abbr = "MS" -> "Mississippi"
          [] abbr = "MO" -> "Missouri"       [] abbr = "MT" -> "Montana"
          [] abbr = "NE" -> "Nebraska"       [] abbr = "NV" -> "Nevada"
          [] abbr = "NH" -> "New Hampshire"  [] abbr = "NJ" -> "New Jersey"
          [] abbr = "NM" -> "New Mexico"     [] abbr = "NY" -> "New York"
          [] abbr = "NC" -> "North Carolina" [] abbr = "ND" -> "North Dakota"
          [] abbr = "OH" -> "Ohio"           [] abbr = "OK" -> "Oklahoma"
          [] abbr = "OR" -> "Oregon"         [] abbr = "PA" -> "Pennsylvania"
          [] abbr = "RI" -> "Rhode Island"   [] abbr = "SC" -> "South Carolina"
          [] abbr = "SD" -> "South Dakota"   [] abbr = "TN" -> "Tennessee"
          [] abbr = "TX" -> "Texas"          [] abbr = "UT" -> "Utah"
          [] abbr = "VT" -> "Vermont"        [] abbr = "VA" -> "Virginia"
          [] abbr = "WA" -> "Washington"     [] abbr = "WV" -> "West Virginia"
          [] abbr = "WI" -> "Wisconsin"      [] abbr = "WY" -> "Wyoming"
          [] abbr = "DC" -> "District of Columbia"]

\* the guideline directory: a module-level dict literal that nothing in
\* the program assigns to, hence a constant here
state_guidelines ==
    [name \in {state_abbreviations[a] : a \in DOMAIN state_abbreviations} |->
        CASE name = "Alabama" -> "https://www.alabamapublichealth.gov/oralhealth/fluoridation.html"
          [] name = "Alaska" -> "http://dhss.alaska.gov/dph/wcfh/Pages/oralhealth/fluoride.aspx"
          [] name = "Arizona" -> "https://www.azdhs.gov/prevention/womens-childrens-health/oral-health/index.php#community-water-fluoridation"
          [] name = "Arkansas" -> "https://www.healthy.arkansas.gov/programs-services/topics/community-water-fluoridation"
          [] name = "California" -> "https://www.cdph.ca.gov/Programs/CCDPHP/DCDIC/CDCB/Pages/OralHealthProgram/Fluoridation.aspx"
          [] name = "Colorado" -> "https://cdphe.colorado.gov/fluoride"
          [] name = "Connecticut" -> "https://portal.ct.gov/DPH/Health-Education-Management--Surveillance/Oral-Health/Community-Water-Fluoridation"
          [] name = "Delaware" -> "https://www.dhss.delaware.gov/dhss/dph/hsm/fluoridation.html"
          [] name = "Florida" -> "http://www.floridahealth.gov/programs-and-services/community-health/dental-health/fluoridation/index.html"
          [] name = "Georgia" -> "https://dph.georgia.gov/oral-health/fluoridation"
          [] name = "Hawaii" -> "https://health.hawaii.gov/about/contact/"
          [] name = "Idaho" -> "https://healthandwelfare.idaho.gov/"
          [] name = "Illinois" -> "http://www.dph.illinois.gov/"
          [] name = "Indiana" -> "https://www.in.gov/health/"
          [] name = "Iowa" -> "https://idph.iowa.gov/"
          [] name = "Kansas" -> "http://www.kdheks.gov/"
          [] name = "Kentucky" -> "https://chfs.ky.gov/"
          [] name = "Louisiana" -> "https://ldh.la.gov/"
          [] name = "Maine" -> "https://www.maine.gov/dhhs/"
          [] name = "Maryland" -> "https://health.maryland.gov/"
          [] name = "Massachusetts" -> "https://www.mass.gov/orgs/department-of-public-health"
          [] name = "Michigan" -> "https://www.michigan.gov/mdhhs/adult-child-serv/childrenfamilies/familyhealth/oralhealth/community-water-fluoridation"
          [] name = "Minnesota" -> "https://www.health.state.mn.us/"
          [] name = "Mississippi" -> "https://msdh.ms.gov/"
          [] name = "Missouri" -> "https://health.mo.gov/"
          [] name = "Montana" -> "https://dphhs.mt.gov/"
          [] name = "Nebraska" -> "http://dhhs.ne.gov/"
          [] name = "Nevada" -> "https://dpbh.nv.gov/"
          [] name = "New Hampshire" -> "https://www.dhhs.nh.gov/"
          [] name = "New Jersey" -> "https://www.nj.gov/health/"
          [] name = "New Mexico" -> "https://www.nmhealth.org/"
          [] name = "New York" -> "https://www.health.ny.gov/prevention/dental/fluoridation/"
          [] name = "North Carolina" -> "https://www.ncdhhs.gov/"
          [] name = "North Dakota" -> "https://www.health.nd.gov/"
          [] name = "Ohio" -> "https://odh.ohio.gov/"
          [] name = "Oklahoma" -> "https://oklahoma.gov/health.html"
          [] name = "Oregon" -> "https://www.oregon.gov/oha/"
          [] name = "Pennsylvania" -> "https://www.health.pa.gov/"
          [] name = "Rhode Island" -> "https://health.ri.gov/"
          [] name = "South Carolina" -> "https://www.scdhec.gov/"
          [] name = "South Dakota" -> "https://doh.sd.gov/"
          [] name = "Tennessee" -> "https://www.tn.gov/health.html"
          [] name = "Texas" -> "https://www.dshs.state.tx.us/dental/oralhealthfluoridation.shtm"
          [] name = "Utah" -> "https://health.utah.gov/"
          [] name = "Vermont" -> "https://www.healthvermont.gov/wellness/oral-health/fluoride"
          [] name = "Virginia" -> "https://www.vdh.virginia.gov/"
          [] name = "Washington" -> "https://www.doh.wa.gov/"
          [] name = "West Virginia" -> "https://dhhr.wv.gov/"
          [] name = "Wisconsin" -> "https://www.dhs.wisconsin.gov/oral-health/index.htm"
          [] name = "Wyoming" -> "https://health.wyo.gov/publichealth/mch/oralhealth/"
          [] name = "District of Columbia" -> "https://dchealth.dc.gov/"]

-----------------------------------------------------------------------------
(* Fixed strings *)

\* (the source spells "CDC's" with a typographic apostrophe)
CDC_FALLBACK ==
    "For general information on fluoride levels, refer to the CDC's WFRS (Water Fluoridation Reporting System) or the 'My Water Fluoride' tool available through the CDC website."

GUIDELINE_PREFIX == "For specific state guidelines, refer to: "

UNAUTHORIZED_MESSAGE == <<"Error: Unauthorized access. Please check your API key.">>

EXHAUSTED_MESSAGE == <<"Feedback generation failed after multiple attempts.">>

SELECT_MESSAGE == <<"Select a year and state to view data.">>

NoDataMessage(state_name, year) == <<"No data for ", state_name, " in ", year, ".">>

-----------------------------------------------------------------------------
(* Python and library primitives the program relies on *)

\* bool(v) for the optional strings the program tests: None and "" are falsy
Truthy(v) == v \notin {None, ""}

\* dict.get(key, None)
DictGet(d, key) == IF key \in DOMAIN d THEN d[key] ELSE None

\* the characters str.strip() removes (the ASCII ones)
Whitespace == {" ", "\t", "\n", "\r", "\f"}

RECURSIVE LStrip(_)
LStrip(s) ==
    IF s # <<>> /\ Head(s) \in Whitespace THEN LStrip(Tail(s)) ELSE s

RECURSIVE RStrip(_)
RStrip(s) ==
    IF s # <<>> /\ s[Len(s)] \in Whitespace
    THEN RStrip(SubSeq(s, 1, Len(s) - 1))
    ELSE s

\* strip mutated: only the left end is trimmed
StripLeftOnly(s) == LStrip(s)

\* str.strip(): leading and trailing whitespace removed, the rest untouched
Strip(s) == RStrip(LStrip(s))

\* format(v, ".2f") of the float v = m / 1000.  The nearest hundredth; a
\* value half-way between two hundredths is rounded to the even one, which
\* is what the float formatting does when the float is exactly m / 1000,
\* that is when m is a multiple of 125.  The values the model feeds it are
\* limited to those two cases.
Format2f(m) ==
    LET q == m \div 10
        r == m % 10
        h == IF r < 5 THEN q
             ELSE IF r > 5 THEN q + 1
             ELSE IF q % 2 = 0 THEN q ELSE q + 1
    IN  ToString(h \div 100) \o "." \o ToString((h \div 10) % 10) \o ToString(h % 10)

-----------------------------------------------------------------------------
(* generate_feedback: the prompt *)

\* the `if guideline_link:` branch mutated: the test inverted
AdditionalInfoInverted(guideline_link) ==
    IF ~Truthy(guideline_link)
    THEN <<GUIDELINE_PREFIX, guideline_link, ".">>
    ELSE <<CDC_FALLBACK>>

AdditionalInfo(guideline_link) ==
    IF Truthy(guideline_link)
    THEN <<GUIDELINE_PREFIX, guideline_link, ".">>
    ELSE <<CDC_FALLBACK>>

\* the lookup mutated: the directory is never consulted
GuidelineLinkNever(d, state_name) == None

GuidelineLink(d, state_name) == DictGet(d, state_name)

BuildPrompt(d, req) ==
    <<"Provide a summary of the water fluoridation data for '", req.cws_name,
      "' in ", req.state_name, " for the year ", req.year, ".",
      " This CWS had the highest monthly adjusted fluoride level, recorded at ",
      Format2f(req.max_fluoride), " mg/L, with a historical average of ",
      Format2f(req.avg_fluoride), " ppm.",
      " Please indicate if the data suggests consistency with public health guidelines or if it indicates a need for intervention. ">>
    \o AdditionalInfo(GuidelineLink(d, req.state_name))

NoRequest ==
    [state_name |-> None, year |-> None, cws_name |-> None,
     max_fluoride |-> 0, avg_fluoride |-> 0]

Request(state_name, year, max_fluoride, avg_fluoride, cws_name) ==
    [state_name |-> state_name, year |-> year, cws_name |-> cws_name,
     max_fluoride |-> max_fluoride, avg_fluoride |-> avg_fluoride]

\* the requests a caller other than the dashboard passes in
DirectRequests ==
    { Request("Ohio", "2021", 710, 680, "Columbus Water"),
      Request("Puerto Rico", "2021", 1000, 716, "San Juan Water"),
      Request("Guam", "2020", 1125, 375, "Guam Waterworks") }

-----------------------------------------------------------------------------
(* generate_feedback: what one POST can bring back *)

NoBody == [valid_json |-> FALSE, has_content |-> FALSE, content |-> <<>>]

\* a body that parses as JSON but lacks choices[0].message.content
NoChoicesBody == [valid_json |-> TRUE, has_content |-> FALSE, content |-> <<>>]

CompletionBody(c) == [valid_json |-> TRUE, has_content |-> TRUE, content |-> c]

Contents ==
    { <<" ", "H", "e", "l", "l", "o", ".", " ">>,
      <<"O", "k", " ", "n", "o", "w", "\n">>,
      <<"\t", " ">> }

HttpResponse(status, body) == [error |-> "none", status |-> status, body |-> body]

TransportError(type) == [error |-> type, status |-> 0, body |-> NoBody]

Responses ==
    { HttpResponse(200, CompletionBody(c)) : c \in Contents }
    \cup { HttpResponse(200, NoBody), HttpResponse(200, NoChoicesBody) }
    \cup { HttpResponse(s, NoChoicesBody) : s \in {401, 404, 500} }
    \cup { TransportError(t) : t \in {"ConnectError", "ReadTimeout"} }

\* Response.raise_for_status raises HTTPStatusError on a 4xx or 5xx status
IsErrorStatus(status) == status >= 400 /\ status <= 599

\* the exception the body of the `try` raises on this response, or "none"
Raised(resp) ==
    IF resp.error # "none" THEN resp.error
    ELSE IF IsErrorStatus(resp.status) THEN "HTTPStatusError"
    ELSE IF ~resp.body.valid_json THEN "JSONDecodeError"
    ELSE IF ~resp.body.has_content THEN "KeyError"
    ELSE "none"

\* isinstance(e, cls) for the three classes the handlers name; in httpx a
\* TimeoutException is a TransportError, which is a RequestError
IsInstance(e, cls) ==
    CASE cls = "HTTPStatusError" -> e = "HTTPStatusError"
      [] cls = "RequestError" -> e \in {"ConnectError", "ReadTimeout"}
      [] cls = "TimeoutException" -> e = "ReadTimeout"

\* the first `except` clause that matches, in the order they are written
Handler(e) ==
    IF IsInstance(e, "HTTPStatusError") THEN "HTTPStatusError"
    ELSE IF IsInstance(e, "RequestError") THEN "RequestError"
    ELSE IF IsInstance(e, "TimeoutException") THEN "TimeoutException"
    ELSE "uncaught"

\* the 401 test mutated: another status is taken for the unauthorized one
IsUnauthorizedWrongCode(status) == status = 404

IsUnauthorized(status) == status = 401

LogRecord(handler, n) ==
    CASE handler = "HTTPStatusError" -> <<"HTTP error on attempt ", ToString(n + 1)>>
      [] handler = "RequestError" -> <<"Request error on attempt ", ToString(n + 1)>>
      [] handler = "TimeoutException" -> <<"Timeout on attempt ", ToString(n + 1)>>

UNAUTHORIZED_LOG == <<"Unauthorized access - check your API key.">>

\* the loop test mutated: one iteration short
LoopContinuesOneShort(n, retries) == n + 1 < retries

\* the loop test mutated: the body runs at least once
LoopContinuesAtLeastOnce(n, retries) == n = 0 \/ n < retries

\* `for attempt in range(self.retries)`: is there an iteration with index n
LoopContinues(n, retries) == n < retries

-----------------------------------------------------------------------------
(* The dataset: read_csv and the two column transforms *)

\* a raw CSV row; the fluoride cell is <<v>>, or <<>> when it is empty (NaN)
RawRow(state, year, cws, value) ==
    [State |-> state, Year |-> year, CWS |-> cws, Value |-> value]

RawRows ==
    << RawRow("OH", "2020", "Columbus Water", <<660>>),
       RawRow("OH", "2021", "Akron Water", <<>>),
       RawRow("OH", "2021", "Columbus Water", <<720>>),
       RawRow("TX", "2021", "Austin Water", <<1200>>) >>

\* Series.fillna(0)
FillNa(value) == IF value = <<>> THEN 0 ELSE value[1]

\* the 'State Name' column and the NaN-free fluoride column
Prepare(raw) ==
    [i \in 1 .. Len(raw) |->
        [State |-> raw[i].State, Year |-> raw[i].Year, CWS |-> raw[i].CWS,
         Value |-> FillNa(raw[i].Value),
         StateName |-> DictGet(state_abbreviations, raw[i].State)]]

\* df[df['State'] == state]: the matching rows, in df's order
RowsOfState(df, state) == SelectSeq(df, LAMBDA row : row.State = state)

\* df[df['Year'] == year]
RowsOfYear(df, year) == SelectSeq(df, LAMBDA row : row.Year = year)

\* the CSV files the model loads: RawRows with some rows left out
RECURSIVE SubSequences(_)
SubSequences(rows) ==
    IF rows = <<>> THEN {<<>>}
    ELSE LET rest == SubSequences(Tail(rows))
         IN  rest \cup {<<Head(rows)>> \o r : r \in rest}

Datasets == {Prepare(raw) : raw \in SubSequences(RawRows) \ {<<>>}}

RECURSIVE Sum(_)
Sum(values) == IF values = <<>> THEN 0 ELSE Head(values) + Sum(Tail(values))

ColumnValues(df) == [i \in 1 .. Len(df) |-> df[i].Value]

\* Series.mean(); exact on RawRows, whose sums divide evenly
Mean(values) == Sum(values) \div Len(values)

\* Series.max()
Max(values) ==
    CHOOSE v \in {values[i] : i \in 1 .. Len(values)} :
        \A i \in 1 .. Len(values) : values[i] <= v

\* Series.unique() of a column, as the set of dropdown option values
YearOptions(df) == {df[i].Year : i \in 1 .. Len(df)}

StateOptions(df) == {df[i].State : i \in 1 .. Len(df)}

-----------------------------------------------------------------------------
(* Construction *)

AIFeedbackGenerator(api_key, endpoint, timeout_s, retries) ==
    [api_key |-> api_key, endpoint |-> endpoint, timeout |-> timeout_s,
     retries |-> retries,
     headers |-> [ContentType |-> "application/json",
                  Authorization |-> <<"Bearer ", api_key>>]]

NoResult == <<None>>

InitFrames ==
    /\ pc = [c \in Calls |-> "idle"]
    /\ caller = [c \in Calls |-> "none"]
    /\ request = [c \in Calls |-> NoRequest]
    /\ prompt = [c \in Calls |-> <<>>]
    /\ attempt = [c \in Calls |-> 0]
    /\ posts = [c \in Calls |-> <<>>]
    /\ log = [c \in Calls |-> <<>>]
    /\ result = [c \in Calls |-> NoResult]
    /\ exc = [c \in Calls |-> "none"]

\* the page as first rendered: nothing selected, the callback has run once
InitPage ==
    /\ selected_year = [c \in Calls |-> None]
    /\ selected_state = [c \in Calls |-> None]
    /\ feedback = [c \in Calls |-> SELECT_MESSAGE]
    /\ table_data = [c \in Calls |-> <<>>]

\* a client constructed with any retry count, used by callers of the class
Init ==
    /\ \E r \in RetriesRange :
          ai_feedback_generator =
              AIFeedbackGenerator("sk-key", "https://api.openai.com/v1/chat/completions",
                                  timeout, r)
    /\ fluoride_data = Prepare(SubSeq(RawRows, 1, 1))
    /\ InitPage
    /\ InitFrames

\* the dashboard process: the client is built from config, the CSV is loaded
InitUI ==
    /\ ai_feedback_generator =
          AIFeedbackGenerator("sk-key", "https://api.openai.com/v1/chat/completions",
                              timeout, retry_attempts)
    /\ fluoride_data \in Datasets
    /\ InitPage
    /\ InitFrames

-----------------------------------------------------------------------------
(* generate_feedback, step by step: entry, then one step per POST *)

static == <<ai_feedback_generator, fluoride_data>>

\* the loop variable mutated: kept on the object, not reset by a new call
FirstAttemptRetained(previous) == previous

\* `attempt` is a local of the call; range() starts it at 0
FirstAttempt(previous) == 0

\* what update_charts hands to Dash once generate_feedback has returned
Deliver(c, who, value) ==
    IF who = "update_charts"
    THEN /\ feedback' = [feedback EXCEPT ![c] = value]
         /\ table_data' = [table_data EXCEPT
                ![c] = RowsOfState(fluoride_data, selected_state[c])]
    ELSE UNCHANGED <<feedback, table_data>>

\* the body of generate_feedback up to the first POST: prompt, payload and
\* the first test of the loop (which may already fall through to the
\* final return)
Enter(c, who, req) ==
    LET first == FirstAttempt(attempt[c])
        loops == LoopContinues(first, ai_feedback_generator.retries)
    IN  /\ caller' = [caller EXCEPT ![c] = who]
        /\ request' = [request EXCEPT ![c] = req]
        /\ prompt' = [prompt EXCEPT ![c] = BuildPrompt(state_guidelines, req)]
        /\ attempt' = [attempt EXCEPT ![c] = first]
        /\ posts' = [posts EXCEPT ![c] = <<>>]
        /\ log' = [log EXCEPT ![c] = <<>>]
        /\ exc' = [exc EXCEPT ![c] = "none"]
        /\ pc' = [pc EXCEPT ![c] = IF loops THEN "attempting" ELSE "exhausted"]
        /\ result' = [result EXCEPT ![c] = IF loops THEN NoResult ELSE EXHAUSTED_MESSAGE]
        /\ IF loops
           THEN UNCHANGED <<feedback, table_data>>
           ELSE Deliver(c, who, EXHAUSTED_MESSAGE)

\* a caller other than the dashboard invokes generate_feedback
generate_feedback(c, req) ==
    /\ pc[c] # "attempting"
    /\ Enter(c, "direct", req)
    /\ UNCHANGED <<static, selected_year, selected_state>>

\* the POST answers 2xx with a completion: `return completion`
PostSuccess(c, resp) ==
    /\ pc[c] = "attempting"
    /\ Raised(resp) = "none"
    /\ LET completion == Strip(resp.body.content)
       IN  /\ result' = [result EXCEPT ![c] = completion]
           /\ Deliver(c, caller[c], completion)
    /\ posts' = [posts EXCEPT ![c] = Append(@, resp)]
    /\ pc' = [pc EXCEPT ![c] = "success"]
    /\ UNCHANGED <<static, selected_year, selected_state, caller, request,
                   prompt, attempt, log, exc>>

\* the POST answers 401: logged, the fixed string returned, no retry
PostUnauthorized(c, resp) ==
    /\ pc[c] = "attempting"
    /\ Handler(Raised(resp)) = "HTTPStatusError"
    /\ IsUnauthorized(resp.status)
    /\ posts' = [posts EXCEPT ![c] = Append(@, resp)]
    /\ log' = [log EXCEPT ![c] = Append(@, UNAUTHORIZED_LOG)]
    /\ result' = [result EXCEPT ![c] = UNAUTHORIZED_MESSAGE]
    /\ Deliver(c, caller[c], UNAUTHORIZED_MESSAGE)
    /\ pc' = [pc EXCEPT ![c] = "unauthorized"]
    /\ UNCHANGED <<static, selected_year, selected_state, caller, request,
                   prompt, attempt, exc>>

\* a handler that only logs: the loop moves to its next index, or runs out
\* and the function returns the fixed string after the loop
LogAndContinue(c, resp, handler) ==
    LET loops == LoopContinues(attempt[c] + 1, ai_feedback_generator.retries)
    IN  /\ posts' = [posts EXCEPT ![c] = Append(@, resp)]
        /\ log' = [log EXCEPT ![c] = Append(@, LogRecord(handler, attempt[c]))]
        /\ IF loops
           THEN /\ attempt' = [attempt EXCEPT ![c] = @ + 1]
                /\ UNCHANGED <<pc, result, feedback, table_data>>
           ELSE /\ pc' = [pc EXCEPT ![c] = "exhausted"]
                /\ result' = [result EXCEPT ![c] = EXHAUSTED_MESSAGE]
                /\ Deliver(c, caller[c], EXHAUSTED_MESSAGE)
                /\ UNCHANGED attempt
        /\ UNCHANGED <<static, selected_year, selected_state, caller, request,
                       prompt, exc>>

\* the POST answers another error status
PostHTTPError(c, resp) ==
    /\ pc[c] = "attempting"
    /\ Handler(Raised(resp)) = "HTTPStatusError"
    /\ ~IsUnauthorized(resp.status)
    /\ LogAndContinue(c, resp, "HTTPStatusError")

\* the POST fails in transport: connection error or timeout.  A timeout is
\* a RequestError, so the RequestError clause takes it and the
\* TimeoutException clause after it is never reached.
PostRequestError(c, resp) ==
    /\ pc[c] = "attempting"
    /\ Handler(Raised(resp)) \in {"RequestError", "TimeoutException"}
    /\ LogAndContinue(c, resp, Handler(Raised(resp)))

\* the POST answers 2xx with a body the extraction chokes on: no clause
\* matches and the exception leaves generate_feedback (and, under the
\* dashboard, the callback, whose outputs then stay as they were)
PostUncaught(c, resp) ==
    /\ pc[c] = "attempting"
    /\ Raised(resp) # "none"
    /\ Handler(Raised(resp)) = "uncaught"
    /\ posts' = [posts EXCEPT ![c] = Append(@, resp)]
    /\ exc' = [exc EXCEPT ![c] = Raised(resp)]
    /\ pc' = [pc EXCEPT ![c] = "raised"]
    /\ UNCHANGED <<static, selected_year, selected_state, feedback, table_data,
                   caller, request, prompt, attempt, log, result>>

-----------------------------------------------------------------------------
(* update_charts *)

\* the first guard mutated: `and` for `or`
NothingSelectedBothMissing(year, state) == ~Truthy(year) /\ ~Truthy(state)

\* `not selected_year or not selected_state`
NothingSelected(year, state) == ~Truthy(year) \/ ~Truthy(state)

\* the callback ends without having called generate_feedback
NoCall(c) ==
    /\ pc' = [pc EXCEPT ![c] = "idle"]
    /\ caller' = [caller EXCEPT ![c] = "none"]
    /\ request' = [request EXCEPT ![c] = NoRequest]
    /\ prompt' = [prompt EXCEPT ![c] = <<>>]
    /\ attempt' = [attempt EXCEPT ![c] = 0]
    /\ posts' = [posts EXCEPT ![c] = <<>>]
    /\ log' = [log EXCEPT ![c] = <<>>]
    /\ result' = [result EXCEPT ![c] = NoResult]

update_charts(c, year, state) ==
    /\ selected_year' = [selected_year EXCEPT ![c] = year]
    /\ selected_state' = [selected_state EXCEPT ![c] = state]
    /\ IF NothingSelected(year, state)
       THEN /\ feedback' = [feedback EXCEPT ![c] = SELECT_MESSAGE]
            /\ table_data' = [table_data EXCEPT ![c] = <<>>]
            /\ exc' = [exc EXCEPT ![c] = "none"]
            /\ NoCall(c)
       ELSE IF state \notin DOMAIN state_abbreviations
       THEN \* state_abbreviations[selected_state] raises
            /\ exc' = [exc EXCEPT ![c] = "KeyError"]
            /\ NoCall(c)
            /\ UNCHANGED <<feedback, table_data>>
       ELSE LET state_name == state_abbreviations[state]
                state_data_all_years == RowsOfState(fluoride_data, state)
                state_data_for_year == RowsOfYear(state_data_all_years, year)
            IN  IF state_data_for_year = <<>>
                THEN /\ feedback' = [feedback EXCEPT ![c] = NoDataMessage(state_name, year)]
                     /\ table_data' = [table_data EXCEPT ![c] = state_data_all_years]
                     /\ exc' = [exc EXCEPT ![c] = "none"]
                     /\ NoCall(c)
                ELSE LET avg_fluoride == Mean(ColumnValues(state_data_all_years))
                         max_fluoride == Max(ColumnValues(state_data_for_year))
                         cws_name == state_data_for_year[1].CWS
                     IN  Enter(c, "update_charts",
                               Request(state_name, year, max_fluoride, avg_fluoride, cws_name))
    /\ UNCHANGED static

\* the user picks or clears the year; Dash runs the callback
SelectYear(c, year) ==
    /\ pc[c] # "attempting"
    /\ year \in YearOptions(fluoride_data) \cup {None}
    /\ update_charts(c, year, selected_state[c])

\* the user picks or clears the state; Dash runs the callback
SelectState(c, state) ==
    /\ pc[c] # "attempting"
    /\ state \in StateOptions(fluoride_data) \cup {None}
    /\ update_charts(c, selected_year[c], state)

-----------------------------------------------------------------------------
(* Specifications *)

Next ==
    \/ \E c \in Calls, req \in DirectRequests : generate_feedback(c, req)
    \/ \E c \in Calls, resp \in Responses : PostSuccess(c, resp)
    \/ \E c \in Calls, resp \in Responses : PostUnauthorized(c, resp)
    \/ \E c \in Calls, resp \in Responses : PostHTTPError(c, resp)
    \/ \E c \in Calls, resp \in Responses : PostRequestError(c, resp)
    \/ \E c \in Calls, resp \in Responses : PostUncaught(c, resp)

\* callers of the client class, two at a time
Spec == Init /\ [][Next]_vars

NextUI ==
    \/ \E c \in Sessions, year \in {"2020", "2021", None} : SelectYear(c, year)
    \/ \E c \in Sessions, state \in {"OH", "TX", None} : SelectState(c, state)
    \/ \E c \in Sessions, resp \in Responses : PostSuccess(c, resp)
    \/ \E c \in Sessions, resp \in Responses : PostUnauthorized(c, resp)
    \/ \E c \in Sessions, resp \in Responses : PostHTTPError(c, resp)
    \/ \E c \in Sessions, resp \in Responses : PostRequestError(c, resp)
    \/ \E c \in Sessions, resp \in Responses : PostUncaught(c, resp)

\* the dashboard: dropdown events of one session drive update_charts
SpecUI == InitUI /\ [][NextUI]_vars

-----------------------------------------------------------------------------
(* Vocabulary of the properties *)

retries == ai_feedback_generator.retries

Terminal == {"success", "unauthorized", "exhausted"}

Last(seq) == seq[Len(seq)]

Contains(seq, x) == \E i \in 1 .. Len(seq) : seq[i] = x

\* a failure the loop is meant to retry: an error status other than 401, a
\* connection error or a timeout
RetryableFailure(resp) ==
    \/ resp.error \in {"ConnectError", "ReadTimeout"}
    \/ resp.error = "none" /\ resp.status >= 400 /\ resp.status # 401

\* a 2xx answer carrying choices[0].message.content
ValidCompletion(resp) ==
    /\ resp.error = "none"
    /\ resp.status >= 200 /\ resp.status <= 299
    /\ resp.body.valid_json /\ resp.body.has_content

AllRetryable(ps, n) == \A i \in 1 .. n : RetryableFailure(ps[i])

\* r is s without its leading and trailing whitespace
IsTrimOf(r, s) ==
    \E i \in 0 .. Len(s) :
        /\ i + Len(r) <= Len(s)
        /\ SubSeq(s, i + 1, i + Len(r)) = r
        /\ \A k \in 1 .. i : s[k] \in Whitespace
        /\ \A k \in (i + Len(r) + 1) .. Len(s) : s[k] \in Whitespace
        /\ r # <<>> => r[1] \notin Whitespace /\ r[Len(r)] \notin Whitespace

GuidelineUrls == {state_guidelines[n] : n \in DOMAIN state_guidelines}

OhioRequest == Request("Ohio", "2021", 710, 680, "Columbus Water")

-----------------------------------------------------------------------------
(* Properties *)

\* C1: whatever the endpoint does, no exception leaves generate_feedback;
\* a finished call has returned the completion, the fixed unauthorized
\* string or the fixed exhaustion string.
C1_NoExceptionPropagates ==
    \A c \in Calls :
        /\ pc[c] # "raised"
        /\ exc[c] = "none"
        /\ pc[c] \in Terminal =>
              \/ result[c] = UNAUTHORIZED_MESSAGE
              \/ result[c] = EXHAUSTED_MESSAGE
              \/ /\ posts[c] # <<>>
                 /\ ValidCompletion(Last(posts[c]))
                 /\ IsTrimOf(result[c], Last(posts[c]).body.content)

\* C2: a 401 answer is the last POST of its call, and the call has then
\* returned the fixed unauthorized string; a 401 on the first attempt
\* leaves exactly one POST, whatever the retry count.
C2_UnauthorizedStops ==
    \A c \in Calls : \A i \in 1 .. Len(posts[c]) :
        (posts[c][i].error = "none" /\ posts[c][i].status = 401) =>
            /\ i = Len(posts[c])
            /\ pc[c] = "unauthorized"
            /\ result[c] = UNAUTHORIZED_MESSAGE
            /\ AllRetryable(posts[c], i - 1)

C2_Witness ==
    \E c \in Calls :
        /\ retries >= 2
        /\ Len(posts[c]) = 1
        /\ posts[c][1].status = 401
        /\ pc[c] = "unauthorized"

\* C3: a call with at least one attempt, all of whose attempts failed
\* retryably, ends after exactly `retries` POSTs with the fixed exhaustion
\* string; and it ends that way only then.
C3_ExhaustsAfterRetries ==
    \A c \in Calls :
        /\ (pc[c] \notin {"idle", "attempting"} /\ posts[c] # <<>>
               /\ AllRetryable(posts[c], Len(posts[c]))) =>
              /\ Len(posts[c]) = retries
              /\ pc[c] = "exhausted"
              /\ result[c] = EXHAUSTED_MESSAGE
        /\ (pc[c] = "exhausted" /\ retries >= 1) =>
              /\ Len(posts[c]) = retries
              /\ AllRetryable(posts[c], Len(posts[c]))

C3_Witness ==
    \E c \in Calls :
        /\ retries >= 2
        /\ pc[c] = "exhausted"
        /\ Len(posts[c]) = retries
        /\ posts[c][1].status = 500
        /\ posts[c][2].error = "ReadTimeout"

\* C4: a valid 2xx completion is the last POST of its call; the call has
\* then returned its content with the surrounding whitespace trimmed, after
\* k <= retries POSTs of which the first k-1 failed retryably.
C4_SuccessAfterRetries ==
    \A c \in Calls :
        /\ \A i \in 1 .. Len(posts[c]) :
              ValidCompletion(posts[c][i]) =>
                  /\ i = Len(posts[c])
                  /\ i <= retries
                  /\ pc[c] = "success"
                  /\ AllRetryable(posts[c], i - 1)
                  /\ IsTrimOf(result[c], posts[c][i].body.content)
        /\ pc[c] = "success" =>
              posts[c] # <<>> /\ ValidCompletion(Last(posts[c]))

C4_Witness ==
    \E c \in Calls :
        /\ pc[c] = "success"
        /\ Len(posts[c]) = 2
        /\ posts[c][1].error = "ReadTimeout"
        /\ posts[c][2].body.content = <<" ", "H", "e", "l", "l", "o", ".", " ">>
        /\ result[c] = <<"H", "e", "l", "l", "o", ".">>

\* C5: the per-call state machine.  A call of a client with retries >= 1
\* starts at Attempting(1) (attempt = 0); from Attempting(n) it moves only
\* to Success, Unauthorized, Attempting(n+1) or Exhausted, so that it has
\* reached one of the three terminal states when control returns; it never
\* issues more than `retries` POSTs.
C5_StateMachine ==
    [][\A c \in Calls :
          /\ Len(posts'[c]) <= IF retries > 0 THEN retries ELSE 0
          /\ (pc[c] # "attempting" /\ pc'[c] # pc[c]) =>
                (retries >= 1 => pc'[c] = "attempting" /\ attempt'[c] = 0)
          /\ pc[c] = "attempting" =>
                \/ pc'[c] = "attempting" /\ attempt'[c] = attempt[c]
                      /\ posts'[c] = posts[c]
                \/ pc'[c] = "attempting" /\ attempt'[c] = attempt[c] + 1
                      /\ attempt'[c] < retries
                \/ pc'[c] = "success"
                \/ pc'[c] = "unauthorized"
                \/ pc'[c] = "exhausted" /\ attempt[c] + 1 = retries
      ]_vars

\* C6: a prompt for a state without a directory entry ends with the CDC
\* fallback sentence and carries no guideline URL; a prompt for a state
\* with an entry carries that state's URL and not the fallback sentence.
C6_FallbackOrUrl ==
    \A c \in Calls :
        pc[c] # "idle" =>
            LET name == request[c].state_name
            IN  IF name \in DOMAIN state_guidelines
                THEN /\ Contains(prompt[c], state_guidelines[name])
                     /\ ~Contains(prompt[c], CDC_FALLBACK)
                ELSE /\ prompt[c] # <<>>
                     /\ Last(prompt[c]) = CDC_FALLBACK
                     /\ \A i \in 1 .. Len(prompt[c]) : prompt[c][i] \notin GuidelineUrls

C6_Witness ==
    \E c, d \in Calls :
        /\ pc[c] # "idle" /\ request[c].state_name = "Puerto Rico"
        /\ pc[d] # "idle" /\ request[d].state_name = "Ohio"

\* C7 as stated: for the Ohio request the directory has no entry for Ohio
\* and the prompt carries the CDC fallback sentence, 0.71 and 0.68.
C7_OhioFallback ==
    \A c \in Calls :
        (pc[c] # "idle" /\ request[c] = OhioRequest) =>
            /\ "Ohio" \notin DOMAIN state_guidelines
            /\ Contains(prompt[c], CDC_FALLBACK)
            /\ Contains(prompt[c], "0.71")
            /\ Contains(prompt[c], "0.68")

\* C7 as amended: for the Ohio request the directory has the entry
\* https://odh.ohio.gov/ and the prompt carries the state-guideline sentence
\* with that URL, not the CDC fallback sentence, and 0.71 and 0.68.
C7_OhioGuideline ==
    \A c \in Calls :
        (pc[c] # "idle" /\ request[c] = OhioRequest) =>
            /\ "Ohio" \in DOMAIN state_guidelines
            /\ state_guidelines["Ohio"] = "https://odh.ohio.gov/"
            /\ \E i \in 1 .. Len(prompt[c]) - 1 :
                  /\ prompt[c][i] = GUIDELINE_PREFIX
                  /\ prompt[c][i + 1] = "https://odh.ohio.gov/"
            /\ ~Contains(prompt[c], CDC_FALLBACK)
            /\ Contains(prompt[c], "0.71")
            /\ Contains(prompt[c], "0.68")

C7_Witness ==
    \E c \in Calls : pc[c] = "attempting" /\ request[c] = OhioRequest

\* C8: update_charts has called generate_feedback (and a POST has been
\* issued) only with a year and a state both selected and at least one row
\* of the dataset for them, the request carrying a state name and a year of
\* the dataset; otherwise no POST was issued and the feedback output is the
\* fixed "Select ..." or "No data for ..." message.
C8_CallOnlyWithData ==
    \A c \in Sessions :
        LET year == selected_year[c]
            state == selected_state[c]
            both == year # None /\ state # None
            rows == RowsOfYear(RowsOfState(fluoride_data, state), year)
        IN  IF both /\ rows # <<>>
            THEN /\ pc[c] # "idle"
                 /\ caller[c] = "update_charts"
                 /\ request[c].state_name # None
                 /\ request[c].state_name = state_abbreviations[state]
                 /\ request[c].year = year
                 /\ \E i \in 1 .. Len(fluoride_data) : fluoride_data[i].Year = request[c].year
            ELSE /\ pc[c] = "idle"
                 /\ posts[c] = <<>>
                 /\ exc[c] = "none"
                 /\ feedback[c] = IF both
                                  THEN NoDataMessage(state_abbreviations[state], year)
                                  ELSE SELECT_MESSAGE

C8_Witness ==
    \E c \in Sessions :
        /\ selected_year[c] = "2021" /\ selected_state[c] = "OH"
        /\ Len(posts[c]) = 2
        /\ pc[c] = "success"
        /\ feedback[c] = result[c]

\* what a call must have done given the responses to its own POSTs
ExpectedPc(ps, r) ==
    IF ps = <<>> THEN (IF r <= 0 THEN "exhausted" ELSE "attempting")
    ELSE IF ValidCompletion(Last(ps)) THEN "success"
    ELSE IF Last(ps).error = "none" /\ Last(ps).status = 401 THEN "unauthorized"
    ELSE IF ~RetryableFailure(Last(ps)) THEN "raised"
    ELSE IF Len(ps) >= r THEN "exhausted" ELSE "attempting"

ExpectedResult(ps, r) ==
    CASE ExpectedPc(ps, r) = "success" -> Strip(Last(ps).body.content)
      [] ExpectedPc(ps, r) = "unauthorized" -> UNAUTHORIZED_MESSAGE
      [] ExpectedPc(ps, r) = "exhausted" -> EXHAUSTED_MESSAGE
      [] OTHER -> NoResult

\* C9: nothing is retained across or shared between calls: a call's attempt
\* counter counts its own POSTs only, it issues at most `retries` of them,
\* where it stands and what it returns are determined by the responses to
\* its own POSTs, and no step changes the client's configuration (api key,
\* endpoint, timeout, retries).  The guideline directory is the constant
\* state_guidelines, which no step can write.
C9_NoSharedState ==
    /\ [](\A c \in Calls :
            pc[c] # "idle" =>
                /\ Len(posts[c]) <= IF retries > 0 THEN retries ELSE 0
                /\ pc[c] = "attempting" => attempt[c] = Len(posts[c])
                /\ pc[c] = ExpectedPc(posts[c], retries)
                /\ result[c] = ExpectedResult(posts[c], retries))
    /\ [][ai_feedback_generator' = ai_feedback_generator]_vars

C9_Witness ==
    \E c, d \in Calls :
        /\ c # d
        /\ pc[c] = "attempting" /\ Len(posts[c]) = 1
        /\ pc[d] = "success" /\ Len(posts[d]) = 2
        /\ request[c] # request[d]

\* C10: a client built with retries <= 0 never attempts: a call issues no
\* POST, logs nothing and returns the fixed exhaustion string.
C10_NoAttemptWithoutRetries ==
    \A c \in Calls :
        retries <= 0 =>
            /\ pc[c] \in {"idle", "exhausted"}
            /\ posts[c] = <<>>
            /\ log[c] = <<>>
            /\ pc[c] = "exhausted" => result[c] = EXHAUSTED_MESSAGE

C10_Witness ==
    \E c, d \in Calls :
        /\ retries = 0
        /\ pc[c] = "exhausted" /\ result[c] = EXHAUSTED_MESSAGE
        /\ pc[d] = "exhausted"

====
